---------------------------- MODULE Spec2Model ----------------------------
(***************************************************************************)
(* The badge service of tohjustin/badger: the GitHub and GitLab handlers   *)
(* (github.go, gitlab.go) and the server lifecycle (main.go).              *)
(*                                                                         *)
(* A connection slot carries one request through its handler:              *)
(*   idle -> handler -> await -> fetched -> done -> idle                   *)
(* "await" is the blocking wait on the outbound call, the one point where  *)
(* a handler is suspended.  Strings of the program are TLA+ strings; a     *)
(* header value that the program parses is a sequence of one-character     *)
(* strings.  A Go error is a record [nil, msg].                            *)
(***************************************************************************)
EXTENDS Integers, Sequences, FiniteSets, TLC

VARIABLES conns, proc, sigint, inFlightAtSignal, killer, clients

vars == <<conns, proc, sigint, inFlightAtSignal, killer, clients>>

\* Largest count an upstream reports in the model.
MaxCount == 11
\* Connection slots served concurrently under ServerSpec.
MaxConns == 2

(***************************************************************************)
(* Go values                                                               *)
(***************************************************************************)
nil == [nil |-> TRUE, msg |-> ""]

Error(m) == [nil |-> FALSE, msg |-> m]

DigitChars == <<"0", "1", "2", "3", "4", "5", "6", "7", "8", "9">>

\* strconv.Itoa with zero printed as the empty string.
RECURSIVE ItoaNoZero(_)
ItoaNoZero(n) ==
    IF n < 0 THEN "-" \o ItoaNoZero(-n)
    ELSE IF n = 0 THEN ""
    ELSE ItoaNoZero(n \div 10) \o DigitChars[(n % 10) + 1]

\* strconv.Itoa: the decimal text of an int.
RECURSIVE Itoa(_)
Itoa(n) ==
    IF n < 0 THEN "-" \o Itoa(-n)
    ELSE IF n < 10 THEN DigitChars[n + 1]
    ELSE Itoa(n \div 10) \o DigitChars[(n % 10) + 1]

\* The characters of a header value joined into one string.
RECURSIVE Join(_)
Join(s) == IF s = <<>> THEN "" ELSE Head(s) \o Join(Tail(s))

DigitVal(ch) == (CHOOSE i \in 1..10 : DigitChars[i] = ch) - 1

IsDigit(ch) == \E i \in 1..10 : DigitChars[i] = ch

RECURSIVE ParseDigits(_)
ParseDigits(s) ==
    IF s = <<>> THEN 0
    ELSE ParseDigits(SubSeq(s, 1, Len(s) - 1)) * 10 + DigitVal(s[Len(s)])

\* strconv.Atoi: optional sign, then at least one digit, nothing else.
Atoi(s) ==
    LET signed == s # <<>> /\ Head(s) \in {"+", "-"}
        digits == IF signed THEN Tail(s) ELSE s
        neg    == signed /\ Head(s) = "-"
    IN  IF digits = <<>> \/ \E i \in 1..Len(digits) : ~IsDigit(digits[i])
        THEN [value |-> 0,
              err |-> Error("strconv.Atoi: parsing \"" \o Join(s) \o "\": invalid syntax")]
        ELSE [value |-> IF neg THEN -ParseDigits(digits) ELSE ParseDigits(digits),
              err |-> nil]

(***************************************************************************)
(* Requests and upstream replies                                           *)
(***************************************************************************)
Providers == {"github", "gitlab"}

\* The {requestType} path segment: the metrics of both providers and one
\* segment neither handler knows.
RequestTypes == {"forks", "issues", "pull-requests", "merge-requests", "stars", "commits"}

\* The state query value: absent, both providers' vocabularies, and one
\* value of neither.
States == {"", "open", "opened", "closed", "merged", "locked", "all"}

\* A request: the route variables and the query values the handlers read.
\* owner and repo are fixed; no branch of either handler depends on them.
Requests ==
    [provider : Providers, requestType : RequestTypes, state : States,
     color : {"", "orange"}, status : {"", "99"}, subject : {"", "custom"},
     icon : {"", "github"}, style : {"", "flat"}]

\* The requests of concurrent clients under ServerSpec.
ConcurrentRequests ==
    {q \in Requests :
        /\ q.requestType \in {"forks", "issues"}
        /\ q.state = "closed"
        /\ q.color = "" /\ q.status = "" /\ q.subject = ""
        /\ q.icon = "" /\ q.style = ""}

Counts == 0..MaxCount

\* What the GitHub GraphQL endpoint may answer to one query.
GithubReplies ==
    {[kind |-> "data", totalCount |-> n, message |-> ""] : n \in Counts}
    \cup {[kind |-> "network", totalCount |-> 0,
           message |-> "Post \"https://api.github.com/graphql\": dial tcp: connect: connection refused"],
          [kind |-> "status", totalCount |-> 0,
           message |-> "non-200 OK status code: 502 Bad Gateway body: \"\""],
          [kind |-> "malformed", totalCount |-> 0,
           message |-> "invalid character '<' looking for beginning of value"],
          [kind |-> "errors", totalCount |-> 0,
           message |-> "Could not resolve to a Repository with the name 'owner/repo'."]}

\* What GitLab may answer to GET /projects/:id: a 2xx with the project, a
\* non-2xx with a JSON error object, either with an undecodable body, or no
\* answer at all.
GitlabProjectReplies ==
    {[net |-> "ok", code |-> 200,
      body |-> [kind |-> "project", forks_count |-> f, star_count |-> s]] :
        f \in Counts, s \in Counts}
    \cup {[net |-> "ok", code |-> k,
           body |-> [kind |-> "malformed", forks_count |-> 0, star_count |-> 0]] :
             k \in {200, 404}}
    \cup {[net |-> "ok", code |-> 404,
           body |-> [kind |-> "message", forks_count |-> 0, star_count |-> 0]],
          [net |-> "refused", code |-> 0,
           body |-> [kind |-> "none", forks_count |-> 0, star_count |-> 0]]}

\* The decimal digits of n, as a header carries them.
RECURSIVE HeaderDigits(_)
HeaderDigits(n) ==
    IF n < 10 THEN <<DigitChars[n + 1]>>
    ELSE Append(HeaderDigits(n \div 10), DigitChars[(n % 10) + 1])

\* What GitLab may answer to a listing call: a 2xx whose X-Total header is a
\* number, is absent or is not a number, a non-2xx without the header, or no
\* answer at all.
GitlabListReplies ==
    {[net |-> "ok", code |-> 200, xTotal |-> HeaderDigits(n)] : n \in Counts}
    \cup {[net |-> "ok", code |-> 200, xTotal |-> <<>>],
          [net |-> "ok", code |-> 200, xTotal |-> <<"a", "b", "c">>],
          [net |-> "ok", code |-> 404, xTotal |-> <<>>],
          [net |-> "refused", code |-> 0, xTotal |-> <<>>]}

\* The upstream condition a GitHub reply stands for.
githubUpstream(reply) ==
    CASE reply.kind = "data"    -> "ok"
      [] reply.kind = "network" -> "network failure"
      [] reply.kind = "status"  -> "non-2xx"
      [] OTHER                  -> "malformed"

\* The upstream condition a GitLab project reply stands for.
gitlabProjectUpstream(reply) ==
    IF reply.net # "ok" THEN "network failure"
    ELSE IF reply.code # 200 THEN "non-2xx"
    ELSE IF reply.body.kind # "project" THEN "malformed"
    ELSE "ok"

\* The upstream condition a GitLab listing reply stands for.
gitlabListUpstream(reply) ==
    IF reply.net # "ok" THEN "network failure"
    ELSE IF reply.code # 200 THEN "non-2xx"
    ELSE IF reply.xTotal = <<>> \/ \E i \in 1..Len(reply.xTotal) : ~IsDigit(reply.xTotal[i])
         THEN "malformed"
    ELSE "ok"

UpstreamFailures == {"network failure", "non-2xx", "malformed"}

(***************************************************************************)
(* github.go                                                               *)
(***************************************************************************)
\* getIssueCount's states variable.
githubIssueStates(issueState) ==
    CASE issueState = "open"   -> <<"OPEN">>
      [] issueState = "closed" -> <<"CLOSED">>
      [] OTHER                 -> <<"OPEN", "CLOSED">>

\* getPullRequestCount's states variable.
githubPullRequestStates(pullRequestState) ==
    CASE pullRequestState = "open"   -> <<"OPEN">>
      [] pullRequestState = "closed" -> <<"CLOSED">>
      [] pullRequestState = "merged" -> <<"MERGED">>
      [] OTHER                       -> <<"OPEN", "CLOSED", "MERGED">>

\* service.client.Query: the count decoded into the query struct, and the error.
githubQuery(reply) ==
    IF reply.kind = "data" THEN [fatal |-> FALSE, value |-> reply.totalCount, err |-> nil]
    ELSE [fatal |-> FALSE, value |-> 0, err |-> Error(reply.message)]

\* The Handler's switch with the "stars" case missing.
githubSwitchNoStars(requestType, state) ==
    CASE requestType = "forks" -> [subject |-> "forks", fetcher |-> "getForkCount"]
      [] requestType = "issues" ->
            [subject |-> CASE state = "open"   -> "open issues"
                           [] state = "closed" -> "closed issues"
                           [] OTHER            -> "issues",
             fetcher |-> "getIssueCount"]
      [] requestType = "pull-requests" ->
            [subject |-> CASE state = "open"   -> "open PRs"
                           [] state = "closed" -> "closed PRs"
                           [] state = "merged" -> "merged PRs"
                           [] OTHER            -> "PRs",
             fetcher |-> "getPullRequestCount"]
      [] OTHER -> [subject |-> "", fetcher |-> ""]

\* The Handler's switch on requestType: the subject label and the fetcher it
\* calls ("" when no case matches: subject stays the zero value, no call).
githubSwitch(requestType, state) ==
    CASE requestType = "forks" -> [subject |-> "forks", fetcher |-> "getForkCount"]
      [] requestType = "issues" ->
            [subject |-> CASE state = "open"   -> "open issues"
                           [] state = "closed" -> "closed issues"
                           [] OTHER            -> "issues",
             fetcher |-> "getIssueCount"]
      [] requestType = "pull-requests" ->
            [subject |-> CASE state = "open"   -> "open PRs"
                           [] state = "closed" -> "closed PRs"
                           [] state = "merged" -> "merged PRs"
                           [] OTHER            -> "PRs",
             fetcher |-> "getPullRequestCount"]
      [] requestType = "stars" -> [subject |-> "stars", fetcher |-> "getStargazerCount"]
      [] OTHER -> [subject |-> "", fetcher |-> ""]

\* The one GraphQL query a GitHub fetcher sends.
githubCall(fetcher, state) ==
    CASE fetcher = "getForkCount" ->
            [fetcher |-> fetcher, endpoint |-> "repository.forks", states |-> <<>>]
      [] fetcher = "getIssueCount" ->
            [fetcher |-> fetcher, endpoint |-> "repository.issues",
             states |-> githubIssueStates(state)]
      [] fetcher = "getPullRequestCount" ->
            [fetcher |-> fetcher, endpoint |-> "repository.pullRequests",
             states |-> githubPullRequestStates(state)]
      [] OTHER ->
            [fetcher |-> fetcher, endpoint |-> "repository.stargazers", states |-> <<>>]

(***************************************************************************)
(* gitlab.go                                                               *)
(***************************************************************************)
\* getIssueCount's URL with a "locked" case, as getPullRequestCount has.
gitlabIssueURLLocked(issueState) ==
    CASE issueState = "opened" -> <<"opened">>
      [] issueState = "closed" -> <<"closed">>
      [] issueState = "locked" -> <<"locked">>
      [] OTHER                 -> <<>>

\* getIssueCount's URL: the state parameter appended to .../issues, if any.
gitlabIssueURL(issueState) ==
    CASE issueState = "opened" -> <<"opened">>
      [] issueState = "closed" -> <<"closed">>
      [] OTHER                 -> <<>>

\* getPullRequestCount's URL: the state parameter appended to
\* .../merge_requests, if any.
gitlabPullRequestURL(pullRequestState) ==
    CASE pullRequestState = "opened" -> <<"opened">>
      [] pullRequestState = "closed" -> <<"closed">>
      [] pullRequestState = "locked" -> <<"locked">>
      [] pullRequestState = "merged" -> <<"merged">>
      [] OTHER                       -> <<>>

\* json.NewDecoder(resp.Body).Decode(&project): a JSON object without the
\* fields leaves them zero and is no error; the status code is not read.
gitlabDecodeProject(body) ==
    CASE body.kind = "project" ->
            [ForksCount |-> body.forks_count, StarCount |-> body.star_count, err |-> nil]
      [] body.kind = "message" ->
            [ForksCount |-> 0, StarCount |-> 0, err |-> nil]
      [] OTHER ->
            [ForksCount |-> 0, StarCount |-> 0,
             err |-> Error("invalid character '<' looking for beginning of value")]

\* getForkCount after client.Do: log.Fatal ends the process on a failed call.
gitlabGetForkCount(reply) ==
    IF reply.net # "ok" THEN [fatal |-> TRUE, value |-> 0, err |-> nil]
    ELSE LET d == gitlabDecodeProject(reply.body)
         IN  IF ~d.err.nil THEN [fatal |-> FALSE, value |-> -1, err |-> d.err]
             ELSE [fatal |-> FALSE, value |-> d.ForksCount, err |-> nil]

\* getStargazerCount after client.Do.
gitlabGetStargazerCount(reply) ==
    IF reply.net # "ok" THEN [fatal |-> TRUE, value |-> 0, err |-> nil]
    ELSE LET d == gitlabDecodeProject(reply.body)
         IN  IF ~d.err.nil THEN [fatal |-> FALSE, value |-> -1, err |-> d.err]
             ELSE [fatal |-> FALSE, value |-> d.StarCount, err |-> nil]

\* getIssueCount after client.Do: the count is the X-Total header.
gitlabGetIssueCount(reply) ==
    IF reply.net # "ok" THEN [fatal |-> TRUE, value |-> 0, err |-> nil]
    ELSE LET a == Atoi(reply.xTotal)
         IN  IF ~a.err.nil THEN [fatal |-> FALSE, value |-> -1, err |-> a.err]
             ELSE [fatal |-> FALSE, value |-> a.value, err |-> nil]

\* getPullRequestCount after client.Do.
gitlabGetPullRequestCount(reply) ==
    IF reply.net # "ok" THEN [fatal |-> TRUE, value |-> 0, err |-> nil]
    ELSE LET a == Atoi(reply.xTotal)
         IN  IF ~a.err.nil THEN [fatal |-> FALSE, value |-> -1, err |-> a.err]
             ELSE [fatal |-> FALSE, value |-> a.value, err |-> nil]

\* The Handler's switch with a "locked issues" label.
gitlabSwitchLockedIssues(requestType, state) ==
    CASE requestType = "forks" -> [subject |-> "forks", fetcher |-> "getForkCount"]
      [] requestType = "issues" ->
            [subject |-> CASE state = "opened" -> "opened issues"
                           [] state = "closed" -> "closed issues"
                           [] state = "locked" -> "locked issues"
                           [] OTHER            -> "issues",
             fetcher |-> "getIssueCount"]
      [] requestType = "merge-requests" ->
            [subject |-> CASE state = "opened" -> "opened MRs"
                           [] state = "closed" -> "closed MRs"
                           [] state = "locked" -> "locked MRs"
                           [] state = "merged" -> "merged MRs"
                           [] OTHER            -> "MRs",
             fetcher |-> "getPullRequestCount"]
      [] requestType = "stars" -> [subject |-> "stars", fetcher |-> "getStargazerCount"]
      [] OTHER -> [subject |-> "", fetcher |-> ""]

\* The Handler's switch on requestType.
gitlabSwitch(requestType, state) ==
    CASE requestType = "forks" -> [subject |-> "forks", fetcher |-> "getForkCount"]
      [] requestType = "issues" ->
            [subject |-> CASE state = "opened" -> "opened issues"
                           [] state = "closed" -> "closed issues"
                           [] OTHER            -> "issues",
             fetcher |-> "getIssueCount"]
      [] requestType = "merge-requests" ->
            [subject |-> CASE state = "opened" -> "opened MRs"
                           [] state = "closed" -> "closed MRs"
                           [] state = "locked" -> "locked MRs"
                           [] state = "merged" -> "merged MRs"
                           [] OTHER            -> "MRs",
             fetcher |-> "getPullRequestCount"]
      [] requestType = "stars" -> [subject |-> "stars", fetcher |-> "getStargazerCount"]
      [] OTHER -> [subject |-> "", fetcher |-> ""]

\* The one REST call a GitLab fetcher sends.
gitlabCall(fetcher, state) ==
    CASE fetcher = "getIssueCount" ->
            [fetcher |-> fetcher, endpoint |-> "projects/owner%2Frepo/issues", states |-> gitlabIssueURL(state)]
      [] fetcher = "getPullRequestCount" ->
            [fetcher |-> fetcher, endpoint |-> "projects/owner%2Frepo/merge_requests",
             states |-> gitlabPullRequestURL(state)]
      [] OTHER ->
            [fetcher |-> fetcher, endpoint |-> "projects/owner%2Frepo", states |-> <<>>]

(***************************************************************************)
(* The handlers from "Compute status" on (the same text in both files)     *)
(***************************************************************************)
\* "Compute status".
computeStatus(value, err) == IF ~err.nil THEN err.msg ELSE Itoa(value)

\* An override that replaces the computed text even when it is empty.
overwriteAlways(computed, query) == query

\* "Overwrite any badge texts": only a non-empty query value replaces.
overwrite(computed, query) == IF query # "" THEN query ELSE computed

\* The arguments handed to badge.Create.
resolveParams(req, subject, value, err) ==
    [subject |-> overwrite(subject, req.subject),
     status  |-> overwrite(computeStatus(value, err), req.status),
     color   |-> overwrite("", req.color),
     icon    |-> req.icon,
     style   |-> req.style]

\* badge.Create: either the markup, which carries the texts it was given, or
\* an error.  Which of the two a given argument list yields is the renderer's.
badgeCreate(params) ==
    {[markup |-> "<svg style=\"" \o params.style \o "\" icon=\"" \o params.icon
                 \o "\" fill=\"" \o params.color \o "\"><text>" \o params.subject
                 \o "</text><text>" \o params.status \o "</text></svg>",
      err |-> nil],
     [markup |-> "", err |-> Error("badge: cannot create badge")]}

NoResponse == [code |-> 0, headers |-> {}, body |-> <<>>]

\* http.Error(w, "Internal Server Error", 500): plain-text headers, the
\* status line, the text and a newline.
httpError(w) ==
    [code    |-> 500,
     headers |-> {"Content-Type: text/plain; charset=utf-8", "X-Content-Type-Options: nosniff"},
     body    |-> Append(w.body, "Internal Server Error\n")]

\* The two w.Header().Set calls and w.Write: headers set after the status
\* line is out are not sent; the first Write sends 200.
writeBadge(w, markup) ==
    [code    |-> IF w.code = 0 THEN 200 ELSE w.code,
     headers |-> IF w.code = 0
                 THEN w.headers \cup {"Cache-Control: public, max-age=3600, s-maxage=3600",
                                      "Content-Type: image/svg+xml;utf-8"}
                 ELSE w.headers,
     body    |-> Append(w.body, markup)]

\* "Generate badge" without the return after http.Error.
generateBadgeNoReturn(w, out) ==
    IF ~out.err.nil THEN writeBadge(httpError(w), out.markup)
    ELSE writeBadge(w, out.markup)

\* "Generate badge": the error response and return, or the badge.
generateBadge(w, out) ==
    IF ~out.err.nil THEN httpError(w)
    ELSE writeBadge(w, out.markup)

(***************************************************************************)
(* State                                                                   *)
(***************************************************************************)
NoRequest ==
    [provider |-> "", requestType |-> "", state |-> "", color |-> "", status |-> "",
     subject |-> "", icon |-> "", style |-> ""]

NoCall == [fetcher |-> "", endpoint |-> "", states |-> <<>>]

NoParams == [subject |-> "", status |-> "", color |-> "", icon |-> "", style |-> ""]

\* A connection with no request: the handler's variables at their zero values.
Idle ==
    [pc |-> "idle", req |-> NoRequest, subject |-> "", fetches |-> 0, calls |-> 0,
     call |-> NoCall, upstream |-> "none", value |-> 0, err |-> nil,
     params |-> NoParams, renderErr |-> FALSE, resp |-> NoResponse]

InFlight == {"handler", "await", "fetched"}

Running == {"serving", "shuttingDown"}

\* The process as main starts serving: one connection slot, any request.
Init ==
    /\ clients = [slots |-> {1}, requests |-> "any"]
    /\ conns = [c \in clients.slots |-> Idle]
    /\ proc = "serving"
    /\ sigint = FALSE
    /\ inFlightAtSignal = {}
    /\ killer = 0

\* The process serving MaxConns connections at once.
InitServer ==
    /\ clients = [slots |-> 1..MaxConns, requests |-> "concurrent"]
    /\ conns = [c \in clients.slots |-> Idle]
    /\ proc = "serving"
    /\ sigint = FALSE
    /\ inFlightAtSignal = {}
    /\ killer = 0

(***************************************************************************)
(* Actions                                                                 *)
(***************************************************************************)
\* The server accepts a connection and routes its request to a handler.
Accept(c) ==
    /\ proc = "serving"
    /\ conns[c].pc = "idle"
    /\ \E q \in (IF clients.requests = "any" THEN Requests ELSE ConcurrentRequests) :
         conns' = [conns EXCEPT ![c] = [Idle EXCEPT !.pc = "handler", !.req = q]]
    /\ UNCHANGED <<proc, sigint, inFlightAtSignal, killer, clients>>

\* Handler, from its start to the outbound call of the fetcher it selects;
\* with no matching case it goes on with value 0 and a nil error.
HandlerFetch(c) ==
    /\ proc \in Running
    /\ conns[c].pc = "handler"
    /\ LET q  == conns[c].req
           sw == IF q.provider = "github" THEN githubSwitch(q.requestType, q.state)
                 ELSE gitlabSwitch(q.requestType, q.state)
       IN  conns' = [conns EXCEPT ![c] =
             IF sw.fetcher = ""
             THEN [@ EXCEPT !.pc = "fetched", !.subject = sw.subject]
             ELSE [@ EXCEPT !.pc = "await", !.subject = sw.subject,
                            !.fetches = @ + 1, !.calls = @ + 1,
                            !.call = IF q.provider = "github"
                                     THEN githubCall(sw.fetcher, q.state)
                                     ELSE gitlabCall(sw.fetcher, q.state)]]
    /\ UNCHANGED <<proc, sigint, inFlightAtSignal, killer, clients>>

\* The fetcher's result for an upstream reply, and the condition it stands for.
FetchResults(provider, fetcher) ==
    IF provider = "github"
    THEN {[res |-> githubQuery(r), upstream |-> githubUpstream(r)] : r \in GithubReplies}
    ELSE CASE fetcher = "getForkCount" ->
                {[res |-> gitlabGetForkCount(r), upstream |-> gitlabProjectUpstream(r)] :
                    r \in GitlabProjectReplies}
           [] fetcher = "getStargazerCount" ->
                {[res |-> gitlabGetStargazerCount(r), upstream |-> gitlabProjectUpstream(r)] :
                    r \in GitlabProjectReplies}
           [] fetcher = "getIssueCount" ->
                {[res |-> gitlabGetIssueCount(r), upstream |-> gitlabListUpstream(r)] :
                    r \in GitlabListReplies}
           [] OTHER ->
                {[res |-> gitlabGetPullRequestCount(r), upstream |-> gitlabListUpstream(r)] :
                    r \in GitlabListReplies}

\* The outbound call ends and the fetcher returns (value, err) to the handler.
FetchReturn(c) ==
    /\ proc \in Running
    /\ conns[c].pc = "await"
    /\ \E f \in FetchResults(conns[c].req.provider, conns[c].call.fetcher) :
         /\ ~f.res.fatal
         /\ conns' = [conns EXCEPT ![c] =
               [@ EXCEPT !.pc = "fetched", !.upstream = f.upstream,
                         !.value = f.res.value, !.err = f.res.err]]
    /\ UNCHANGED <<proc, sigint, inFlightAtSignal, killer, clients>>

\* The outbound call fails and the fetcher calls log.Fatal: os.Exit(1).
FetchFatal(c) ==
    /\ proc \in Running
    /\ conns[c].pc = "await"
    /\ \E f \in FetchResults(conns[c].req.provider, conns[c].call.fetcher) :
         /\ f.res.fatal
         /\ conns' = [conns EXCEPT ![c] = [@ EXCEPT !.upstream = f.upstream]]
    /\ proc' = "fatal"
    /\ killer' = c
    /\ UNCHANGED <<sigint, inFlightAtSignal, clients>>

\* Handler, from "Compute status" to the response.
Respond(c) ==
    /\ proc \in Running
    /\ conns[c].pc = "fetched"
    /\ LET s == conns[c]
           p == resolveParams(s.req, s.subject, s.value, s.err)
       IN  \E out \in badgeCreate(p) :
             conns' = [conns EXCEPT ![c] =
               [@ EXCEPT !.pc = "done", !.params = p, !.renderErr = ~out.err.nil,
                         !.resp = generateBadge(NoResponse, out)]]
    /\ UNCHANGED <<proc, sigint, inFlightAtSignal, killer, clients>>

\* The answered connection goes back to idle; nothing of the request is kept.
Close(c) ==
    /\ proc \in Running
    /\ conns[c].pc = "done"
    /\ conns' = [conns EXCEPT ![c] = Idle]
    /\ UNCHANGED <<proc, sigint, inFlightAtSignal, killer, clients>>

\* <-sigint: the goroutine calls srv.Shutdown(nil), which closes the listeners.
Sigint ==
    /\ proc = "serving"
    /\ proc' = "shuttingDown"
    /\ sigint' = TRUE
    /\ inFlightAtSignal' = {c \in clients.slots : conns[c].pc \in InFlight}
    /\ UNCHANGED <<conns, killer, clients>>

\* srv.Shutdown(nil) after closing the listeners: with every connection
\* idle it returns, idleConnsClosed is closed and main returns; otherwise
\* its wait selects on ctx.Done() of the nil context, which panics.
Shutdown ==
    /\ proc = "shuttingDown"
    /\ proc' = IF \A c \in clients.slots : conns[c].pc \notin InFlight
               THEN "exited" ELSE "panicked"
    /\ UNCHANGED <<conns, sigint, inFlightAtSignal, killer, clients>>

Next ==
    \/ \E c \in clients.slots : Accept(c)
    \/ \E c \in clients.slots : HandlerFetch(c)
    \/ \E c \in clients.slots : FetchReturn(c)
    \/ \E c \in clients.slots : FetchFatal(c)
    \/ \E c \in clients.slots : Respond(c)
    \/ \E c \in clients.slots : Close(c)
    \/ Sigint
    \/ Shutdown

Spec == Init /\ [][Next]_vars

ServerSpec == InitServer /\ [][Next]_vars

(***************************************************************************)
(* Properties                                                              *)
(***************************************************************************)
Slots == clients.slots

\* The requestType values each provider's route documents.
Recognized(q) ==
    q.requestType \in (IF q.provider = "github"
                       THEN {"forks", "issues", "pull-requests", "stars"}
                       ELSE {"forks", "issues", "merge-requests", "stars"})

Switched == {"await", "fetched", "done"}

\* C1: whenever the metric fetch fails (network failure, decode failure,
\* malformed header) the request is still answered, and the answer the
\* handler then writes for a rendered badge is HTTP 200 with the error's
\* message as status text, unless a non-empty status= value overrides it.
C1_FetchFailureStillAnswered ==
    \A c \in Slots :
        conns[c].upstream \in {"network failure", "malformed"} =>
            /\ ~(proc = "fatal" /\ killer = c)
            /\ (conns[c].pc = "done" /\ ~conns[c].renderErr) =>
                   /\ conns[c].resp.code = 200
                   /\ conns[c].params.status =
                        (IF conns[c].req.status # "" THEN conns[c].req.status
                         ELSE conns[c].err.msg)

\* C2: for each of color, status and subject, a non-empty query value is
\* the value handed to the renderer whatever the fetch returned; an empty
\* one leaves the computed value (the switch's label, the count's text or
\* the error's message, the empty color).
C2_OverridesWin ==
    \A c \in Slots :
        conns[c].pc = "done" =>
            LET s == conns[c]
            IN  /\ s.params.color = (IF s.req.color # "" THEN s.req.color ELSE "")
                /\ s.params.status =
                     (IF s.req.status # "" THEN s.req.status
                      ELSE IF s.err.nil THEN Itoa(s.value) ELSE s.err.msg)
                /\ s.params.subject =
                     (IF s.req.subject # "" THEN s.req.subject ELSE s.subject)

\* C2's case: a status override handed to the renderer over a fetch error,
\* next to a subject that was not overridden.
C2_Witness ==
    \E c \in Slots :
        /\ conns[c].pc = "done"
        /\ ~conns[c].err.nil
        /\ conns[c].req.status = "99" /\ conns[c].params.status = "99"
        /\ conns[c].req.subject = "" /\ conns[c].params.subject = "closed issues"
        /\ conns[c].req.color = "orange" /\ conns[c].params.color = "orange"

\* The fixed label table of the specification, by provider, metric and state.
LabelTable(provider, requestType, state) ==
    CASE requestType = "forks" -> "forks"
      [] requestType = "stars" -> "stars"
      [] provider = "github" /\ requestType = "issues" ->
            (CASE state = "open" -> "open issues" [] state = "closed" -> "closed issues"
               [] OTHER -> "issues")
      [] provider = "github" /\ requestType = "pull-requests" ->
            (CASE state = "open" -> "open PRs" [] state = "closed" -> "closed PRs"
               [] state = "merged" -> "merged PRs" [] OTHER -> "PRs")
      [] provider = "gitlab" /\ requestType = "issues" ->
            (CASE state = "opened" -> "opened issues" [] state = "closed" -> "closed issues"
               [] OTHER -> "issues")
      [] provider = "gitlab" /\ requestType = "merge-requests" ->
            (CASE state = "opened" -> "opened MRs" [] state = "closed" -> "closed MRs"
               [] state = "locked" -> "locked MRs" [] state = "merged" -> "merged MRs"
               [] OTHER -> "MRs")

\* C3: for every provider, recognized metric and raw state the computed
\* subject label is the one of the provider's fixed table; a state that is
\* absent, unknown or of the other provider's vocabulary gets the default.
C3_SubjectFromTable ==
    \A c \in Slots :
        (conns[c].pc \in Switched /\ Recognized(conns[c].req)) =>
            conns[c].subject =
                LabelTable(conns[c].req.provider, conns[c].req.requestType, conns[c].req.state)

\* C3's case: GitLab issues asked for with GitHub's "open" get the default.
C3_Witness ==
    \E c \in Slots :
        /\ conns[c].pc \in Switched
        /\ conns[c].req.provider = "gitlab" /\ conns[c].req.requestType = "issues"
        /\ conns[c].req.state = "open"
        /\ conns[c].subject = "issues"

\* C4: every upstream failure condition (network failure, non-2xx response,
\* malformed body or header) that a fetcher returns on comes to the handler
\* as an error, never as a successful count.
C4_FailureReturnedAsError ==
    \A c \in Slots :
        (conns[c].pc \in {"fetched", "done"} /\ conns[c].upstream \in UpstreamFailures) =>
            ~conns[c].err.nil

\* C5 as stated: every request, whatever its requestType, causes exactly
\* one fetcher invocation and exactly one outbound call.
C5_OneFetchPerRequest ==
    \A c \in Slots :
        conns[c].pc \in {"fetched", "done"} =>
            conns[c].fetches = 1 /\ conns[c].calls = 1

\* C5, amended: a request with a requestType its provider recognizes causes
\* exactly one fetcher invocation and one outbound call, whatever the
\* outcome; one with any other requestType causes none; a connection has no
\* result before its own fetch.
C5_OneFetchPerRecognizedRequest ==
    \A c \in Slots :
        LET n == IF Recognized(conns[c].req) THEN 1 ELSE 0
        IN  /\ conns[c].pc \in Switched =>
                conns[c].fetches = n /\ conns[c].calls = n
            /\ conns[c].pc \in {"idle", "handler"} =>
                /\ conns[c].fetches = 0 /\ conns[c].calls = 0
                /\ conns[c].upstream = "none" /\ conns[c].value = 0 /\ conns[c].err.nil

\* C5's case: a request answered after a failed call, which was made once.
C5_Witness ==
    \E c \in Slots :
        /\ conns[c].pc = "done"
        /\ conns[c].upstream \in UpstreamFailures
        /\ ~conns[c].err.nil
        /\ conns[c].calls = 1 /\ conns[c].fetches = 1

SvgHeaders ==
    {"Cache-Control: public, max-age=3600, s-maxage=3600", "Content-Type: image/svg+xml;utf-8"}

\* C6: a renderer error is answered 500 with the plain text "Internal
\* Server Error" (http.Error ends it with a newline), no markup and neither
\* SVG header; a rendered badge is answered 200 with the markup and both
\* headers; one of the two is written, once, and nothing before.
C6_RenderErrorIs500 ==
    \A c \in Slots :
        LET s == conns[c]
        IN  IF s.pc # "done" THEN s.resp = NoResponse
            ELSE IF s.renderErr
            THEN /\ s.resp.code = 500
                 /\ s.resp.body = <<"Internal Server Error\n">>
                 /\ s.resp.headers \cap SvgHeaders = {}
            ELSE /\ s.resp.code = 200
                 /\ \E out \in badgeCreate(s.params) :
                        out.err.nil /\ s.resp.body = <<out.markup>>
                 /\ SvgHeaders \subseteq s.resp.headers

\* C6's case: the renderer failed and the 500 was written.
C6_Witness ==
    \E c \in Slots :
        conns[c].pc = "done" /\ conns[c].renderErr /\ conns[c].resp.code = 500

\* C7: the status handed to the renderer is never empty, for any
\* requestType, fetch outcome and overrides.
C7_StatusNonEmpty ==
    \A c \in Slots : conns[c].pc = "done" => conns[c].params.status # ""

\* C7's case: no case of the switch matched, nothing overrides, and the
\* status is the text of the zero value.
C7_Witness ==
    \E c \in Slots :
        /\ conns[c].pc = "done"
        /\ ~Recognized(conns[c].req)
        /\ conns[c].req.status = ""
        /\ conns[c].params.status = "0"

\* C8: no outcome of one request, an upstream failure in its fetch
\* included, prevents the response of another request in flight.
C8_RequestsIndependent ==
    \A c, d \in Slots :
        (c # d /\ proc = "fatal" /\ killer = c) => conns[d].pc \notin InFlight

\* C9: when the process exits after the interrupt signal, every request
\* that was in flight at the signal has been answered.
C9_GracefulShutdown ==
    proc \in {"exited", "panicked"} =>
        \A c \in inFlightAtSignal : conns[c].pc \in {"done", "idle"}

\* The state-specific labels of a metric with the one upstream state each
\* stands for, and the default label with the filter that covers all states.
FilterTable(provider, requestType) ==
    CASE provider = "github" /\ requestType = "issues" ->
            {[label |-> "open issues", filter |-> <<"OPEN">>],
             [label |-> "closed issues", filter |-> <<"CLOSED">>],
             [label |-> "issues", filter |-> <<"OPEN", "CLOSED">>]}
      [] provider = "github" /\ requestType = "pull-requests" ->
            {[label |-> "open PRs", filter |-> <<"OPEN">>],
             [label |-> "closed PRs", filter |-> <<"CLOSED">>],
             [label |-> "merged PRs", filter |-> <<"MERGED">>],
             [label |-> "PRs", filter |-> <<"OPEN", "CLOSED", "MERGED">>]}
      [] provider = "gitlab" /\ requestType = "issues" ->
            {[label |-> "opened issues", filter |-> <<"opened">>],
             [label |-> "closed issues", filter |-> <<"closed">>],
             [label |-> "issues", filter |-> <<>>]}
      [] provider = "gitlab" /\ requestType = "merge-requests" ->
            {[label |-> "opened MRs", filter |-> <<"opened">>],
             [label |-> "closed MRs", filter |-> <<"closed">>],
             [label |-> "locked MRs", filter |-> <<"locked">>],
             [label |-> "merged MRs", filter |-> <<"merged">>],
             [label |-> "MRs", filter |-> <<>>]}
      [] OTHER -> {}

\* C10: for issues and pull/merge requests the label shown and the filter
\* sent upstream agree: a state's label if and only if the query is
\* restricted to that state, the default label if and only if it covers
\* all states (GitHub: every state listed; GitLab: no state parameter).
C10_LabelMatchesFilter ==
    \A c \in Slots :
        (conns[c].pc \in Switched /\ Recognized(conns[c].req)) =>
            \A e \in FilterTable(conns[c].req.provider, conns[c].req.requestType) :
                (conns[c].subject = e.label) <=> (conns[c].call.states = e.filter)

\* C10's case: GitLab issues asked for with "locked": default label, no
\* state parameter.
C10_Witness ==
    \E c \in Slots :
        /\ conns[c].pc \in Switched
        /\ conns[c].req.provider = "gitlab" /\ conns[c].req.requestType = "issues"
        /\ conns[c].req.state = "locked"
        /\ conns[c].subject = "issues"
        /\ conns[c].call.states = <<>>

=============================================================================
